---- MODULE Spec2Model ----
(***************************************************************************)
(* Search-and-evaluation core of the chess engine (chessEngine_uci.py and  *)
(* chess_engine_v3.py) and the UCI protocol loop that drives it.           *)
(*                                                                         *)
(* The rules component (python-chess: positions, legal moves, push/pop,    *)
(* game-over detection, FEN parsing) is outside the repository.  It is     *)
(* modelled as a finite family of abstract positions 0..NumPositions-1:    *)
(* every position has a piece placement, a list of legal moves in a fixed  *)
(* enumeration order, and a successor position per move.  Everything the   *)
(* repository's code computes (evaluation, search, root selection, the     *)
(* protocol loop) is translated statement by statement on top of that.     *)
(***************************************************************************)
EXTENDS Integers, Sequences, FiniteSets, TLC

(***************************************************************************)
(* Bounds of the model.                                                    *)
(***************************************************************************)
NumPositions == 41      \* abstract positions the rules component knows
MaxMoves == 3           \* most legal moves any position has
MaxDepth == 3           \* largest depth a caller passes to the search
MaxClock == 4           \* halfmove clock at which the game is over (stands for the 75-move rule)
MaxDelay == 3           \* largest time between start_time and the first clock check
MaxCost == 2            \* largest time one root move's subtree takes
MaxReplay == 2          \* most moves a position command replays
MaxFullmove == 2        \* largest fullmove number in a FEN

(***************************************************************************)
(* Values of the rules component and of Python.                            *)
(***************************************************************************)
WHITE == TRUE
BLACK == FALSE
None == 0               \* Python's None; moves are 1..MaxMoves
PAWN == 1
KNIGHT == 2
BISHOP == 3
ROOK == 4
QUEEN == 5
KING == 6
Inf == 1000000          \* float('inf'); exceeds every score
NegInf == -Inf          \* float('-inf')
SQUARES == 0 .. 63

max(a, b) == IF a >= b THEN a ELSE b
min(a, b) == IF a <= b THEN a ELSE b

PIECE_VALUES == <<100, 320, 330, 500, 900, 20000>>

PAWN_PST == <<
    0,  0,  0,  0,  0,  0,  0,  0,
    50, 50, 50, 50, 50, 50, 50, 50,
    10, 10, 20, 30, 30, 20, 10, 10,
    5,  5, 10, 25, 25, 10,  5,  5,
    0,  0,  0, 20, 20,  0,  0,  0,
    5, -5,-10,  0,  0,-10, -5,  5,
    5, 10, 10,-20,-20, 10, 10,  5,
    0,  0,  0,  0,  0,  0,  0,  0 >>

KNIGHT_PST == <<
    -50,-40,-30,-30,-30,-30,-40,-50,
    -40,-20,  0,  0,  0,  0,-20,-40,
    -30,  0, 10, 15, 15, 10,  0,-30,
    -30,  5, 15, 20, 20, 15,  5,-30,
    -30,  0, 15, 20, 20, 15,  0,-30,
    -30,  5, 10, 15, 15, 10,  5,-30,
    -40,-20,  0,  5,  5,  0,-20,-40,
    -50,-40,-30,-30,-30,-30,-40,-50 >>

BISHOP_PST == KNIGHT_PST
ROOK_PST == KNIGHT_PST
QUEEN_PST == KNIGHT_PST

KING_PST == <<
    -30,-40,-40,-50,-50,-40,-40,-30,
    -30,-40,-40,-50,-50,-40,-40,-30,
    -30,-40,-40,-50,-50,-40,-40,-30,
    -30,-40,-40,-50,-50,-40,-40,-30,
    -20,-30,-30,-40,-40,-30,-30,-20,
    -10,-20,-20,-20,-20,-20,-20,-10,
    20, 20,  0,  0,  0,  0, 20, 20,
    20, 30, 10,  0,  0, 10, 30, 20 >>

PST_TABLES == <<PAWN_PST, KNIGHT_PST, BISHOP_PST, ROOK_PST, QUEEN_PST, KING_PST>>

(***************************************************************************)
(* The rules component.  A board is a record                               *)
(*   pos       the abstract position (its piece placement)                 *)
(*   turn      WHITE or BLACK                                              *)
(*   clock     the halfmove clock                                          *)
(*   fullmove  the fullmove number                                         *)
(*   stack     what push saved, most recent last: <<move, pos, turn,       *)
(*             clock, fullmove>> per pushed move                           *)
(***************************************************************************)
Positions == 0 .. (NumPositions - 1)

square_mirror(square) == (7 - (square \div 8)) * 8 + (square % 8)

\* The placement of position p: both kings, an optional piece X and an
\* optional pawn Y, on pairwise different squares.
WKSquare(p) == p % 16
BKSquare(p) == 48 + ((p * 7 + 3) % 16)
XType(p) == <<QUEEN, None, PAWN, KNIGHT, BISHOP, ROOK, ROOK, KNIGHT>>[(p % 8) + 1]
XColor(p) == ((p \div 8) % 2) = 0
XSquare(p) == 16 + ((p * 5) % 16)
YPresent(p) == (p % 3) # 0
YColor(p) == ((p \div 3) % 2) = 1
YSquare(p) == 32 + ((p * 3) % 16)

\* board.piece_at(square): None or a piece [piece_type, color].
piece_at(b, square) ==
    LET p == b.pos IN
    IF square = WKSquare(p) THEN [piece_type |-> KING, color |-> WHITE]
    ELSE IF square = BKSquare(p) THEN [piece_type |-> KING, color |-> BLACK]
    ELSE IF square = XSquare(p) /\ XType(p) # None
         THEN [piece_type |-> XType(p), color |-> XColor(p)]
    ELSE IF square = YSquare(p) /\ YPresent(p)
         THEN [piece_type |-> PAWN, color |-> YColor(p)]
    ELSE [piece_type |-> None, color |-> WHITE]

TurnBit(turn) == IF turn = WHITE THEN 0 ELSE 1

\* How many legal moves the side to move has.
NumLegal(b) ==
    LET k == (b.pos * 3 + (b.pos \div 4) + TurnBit(b.turn) + 2) % (MaxMoves + 2)
    IN  IF k > MaxMoves THEN MaxMoves ELSE k

\* list(board.legal_moves): the legal moves in the component's enumeration
\* order (descending move number in odd positions, ascending in even ones).
legal_moves(b) ==
    LET n == NumLegal(b) IN
    [i \in 1 .. n |-> IF b.pos % 2 = 1 THEN n + 1 - i ELSE i]

is_legal(b, move) == move \in 1 .. NumLegal(b)

is_check(b) == ((b.pos + TurnBit(b.turn)) \div 2) % 2 = 1

is_checkmate(b) == NumLegal(b) = 0 /\ is_check(b)

is_stalemate(b) == NumLegal(b) = 0 /\ ~is_check(b)

\* Bare kings, or a single knight or bishop besides them.
is_insufficient_material(b) ==
    /\ ~YPresent(b.pos)
    /\ XType(b.pos) \in {None, KNIGHT, BISHOP}

\* board.is_game_over(): checkmate, stalemate, insufficient material or the
\* move-count rule.
is_game_over(b) ==
    \/ is_checkmate(b)
    \/ is_stalemate(b)
    \/ is_insufficient_material(b)
    \/ b.clock >= MaxClock

Successor(p, move) == (p * 3 + move * 7 + 1) % NumPositions

\* board.push(move): saves the state, applies the move.
push(b, move) ==
    [pos |-> Successor(b.pos, move),
     turn |-> ~b.turn,
     clock |-> b.clock + 1,
     fullmove |-> IF b.turn = BLACK THEN b.fullmove + 1 ELSE b.fullmove,
     stack |-> Append(b.stack,
                      <<move, b.pos, b.turn, b.clock, b.fullmove>>)]

\* A pop that restores nothing.
pop_forgotten(b) == b

\* board.pop(): restores the state the most recent push saved.
pop(b) ==
    LET top == b.stack[Len(b.stack)] IN
    [pos |-> top[2], turn |-> top[3], clock |-> top[4], fullmove |-> top[5],
     stack |-> SubSeq(b.stack, 1, Len(b.stack) - 1)]

(***************************************************************************)
(* evaluate_position                                                       *)
(***************************************************************************)
\* The state of the loop over the squares is <<square, material,
\* piece_square_score>>, square being the next one to visit.
\* For an occupied square value and pst_value are added for a white piece and
\* subtracted for a black one.
AddPiece(st, piece, value, pst_value) ==
    IF piece.color = WHITE
    THEN <<st[1] + 1, st[2] + value, st[3] + pst_value>>
    ELSE <<st[1] + 1, st[2] - value, st[3] - pst_value>>

\* One iteration: skip an empty square, else look up value and pst[square_idx].
SquareStep(st, piece) ==
    IF piece.piece_type = None THEN <<st[1] + 1, st[2], st[3]>>
    ELSE AddPiece(st, piece, PIECE_VALUES[piece.piece_type],
                  PST_TABLES[piece.piece_type][
                      (IF piece.color = WHITE THEN st[1] ELSE square_mirror(st[1])) + 1])

\* for square in chess.SQUARES
RECURSIVE SquareLoop(_, _)
SquareLoop(b, st) ==
    IF st[1] \notin SQUARES THEN st
    ELSE SquareLoop(b, SquareStep(st, piece_at(b, st[1])))

\* The loop's final state for every placement (the loop reads nothing of
\* the board but its pieces).
SquareSums == [p \in Positions |-> SquareLoop([pos |-> p], <<0, 0, 0>>)]

\* total_score = material + piece_square_score
TotalScore(b) == SquareSums[b.pos][2] + SquareSums[b.pos][3]

CheckmateScore(b) == IF b.turn = WHITE THEN -99999 ELSE 99999

evaluate_position(b) ==
    IF is_checkmate(b) THEN CheckmateScore(b)
    ELSE IF is_stalemate(b) \/ is_insufficient_material(b) THEN 0
    ELSE IF b.turn = WHITE THEN TotalScore(b) ELSE -TotalScore(b)

(***************************************************************************)
(* alpha_beta.  The board is passed by reference and mutated by push/pop,  *)
(* so the operator returns, besides the score, the board as the call       *)
(* leaves it, the longest move stack the call produced and the number of   *)
(* moves its breaks left unsearched:                                       *)
(*   [score, board, peak, skipped]                                         *)
(***************************************************************************)
\* A break taken after the first move whatever the window.
CutoffAlways(alpha, beta) == alpha <= beta \/ beta <= alpha

\* if beta <= alpha: break
Cutoff(alpha, beta) == beta <= alpha

\* The state of a loop over the legal moves is a record: the board, the
\* running locals, i = the index of the next move and stop = a break was
\* taken.  r is what the recursive call returned.
RECURSIVE alpha_beta(_, _, _, _, _)
RECURSIVE MaxLoop(_, _, _, _)
RECURSIVE MinLoop(_, _, _, _)

\* The maximizing loop after the recursive call: pop, update, test.
MaxUpdate(st, beta, r) ==
    [board |-> pop(r.board),
     max_eval |-> max(st.max_eval, r.score),
     alpha |-> max(st.alpha, r.score),
     peak |-> max(st.peak, r.peak),
     skipped |-> st.skipped + r.skipped,
     i |-> st.i + 1,
     stop |-> Cutoff(max(st.alpha, r.score), beta)]

MaxLoop(depth, beta, moves, st) ==
    IF st.stop \/ st.i > Len(moves)
    THEN [score |-> st.max_eval, board |-> st.board, peak |-> st.peak,
          skipped |-> st.skipped + (Len(moves) + 1 - st.i)]
    ELSE MaxLoop(depth, beta, moves,
                 MaxUpdate(st, beta,
                           alpha_beta(push(st.board, moves[st.i]), depth - 1,
                                      st.alpha, beta, FALSE)))

\* The minimizing loop after the recursive call.
MinUpdate(st, alpha, r) ==
    [board |-> pop(r.board),
     min_eval |-> min(st.min_eval, r.score),
     beta |-> min(st.beta, r.score),
     peak |-> max(st.peak, r.peak),
     skipped |-> st.skipped + r.skipped,
     i |-> st.i + 1,
     stop |-> Cutoff(alpha, min(st.beta, r.score))]

MinLoop(depth, alpha, moves, st) ==
    IF st.stop \/ st.i > Len(moves)
    THEN [score |-> st.min_eval, board |-> st.board, peak |-> st.peak,
          skipped |-> st.skipped + (Len(moves) + 1 - st.i)]
    ELSE MinLoop(depth, alpha, moves,
                 MinUpdate(st, alpha,
                           alpha_beta(push(st.board, moves[st.i]), depth - 1,
                                      alpha, st.beta, TRUE)))

alpha_beta(b, depth, alpha, beta, maximizing_player) ==
    IF depth = 0 \/ is_game_over(b) \/ legal_moves(b) = <<>>
    THEN [score |-> evaluate_position(b), board |-> b, peak |-> Len(b.stack),
          skipped |-> 0]
    ELSE IF maximizing_player
         THEN MaxLoop(depth, beta, legal_moves(b),
                      [board |-> b, max_eval |-> NegInf, alpha |-> alpha,
                       peak |-> Len(b.stack), skipped |-> 0, i |-> 1,
                       stop |-> FALSE])
         ELSE MinLoop(depth, alpha, legal_moves(b),
                      [board |-> b, min_eval |-> Inf, beta |-> beta,
                       peak |-> Len(b.stack), skipped |-> 0, i |-> 1,
                       stop |-> FALSE])

(***************************************************************************)
(* The clock.  time.time() - start_time, read at the top of the i-th       *)
(* iteration of the root loop, is clk.delay + (i - 1) * clk.cost: the time *)
(* until the first check plus the time the subtrees searched so far took.  *)
(***************************************************************************)
Elapsed(clk, i) == clk.delay + (i - 1) * clk.cost

(***************************************************************************)
(* find_best_move of chessEngine_uci.py.  Returns                          *)
(*   [move, board, peak, scores]                                           *)
(* scores being the <<move, score>> pairs of the root moves evaluated.     *)
(***************************************************************************)
\* A comparison that lets a later equal score replace the earlier one.
BetterOrEqualForWhite(score, best_score) == score >= best_score

BetterForWhite(score, best_score) == score > best_score
BetterForBlack(score, best_score) == score < best_score

\* if board.turn == chess.WHITE: score > best_score, else: score < best_score
Better(turn, score, best_score) ==
    IF turn = WHITE THEN BetterForWhite(score, best_score)
    ELSE BetterForBlack(score, best_score)

\* The root loop after the pop: popped is the board, read for its turn.
RootUpdate(st, move, popped, r) ==
    [board |-> popped,
     best_move |-> IF Better(popped.turn, r.score, st.best_score) THEN move
                   ELSE st.best_move,
     best_score |-> IF Better(popped.turn, r.score, st.best_score) THEN r.score
                    ELSE st.best_score,
     peak |-> max(st.peak, r.peak),
     scores |-> Append(st.scores, <<move, r.score>>),
     i |-> st.i + 1]

\* board.push(move); score = alpha_beta(board, depth - 1, -inf, inf,
\* board.turn == chess.BLACK), pushed being the board after the push.
SearchRootMove(pushed, depth) ==
    alpha_beta(pushed, depth - 1, NegInf, Inf, pushed.turn = BLACK)

\* One iteration of the root loop after the clock check.
RootStep(depth, moves, st, r) == RootUpdate(st, moves[st.i], pop(r.board), r)

RECURSIVE RootLoop(_, _, _, _, _)
RootLoop(depth, time_limit, clk, moves, st) ==
    IF st.i > Len(moves) \/ Elapsed(clk, st.i) > time_limit
    THEN [move |-> st.best_move, board |-> st.board, peak |-> st.peak,
          scores |-> st.scores]
    ELSE RootLoop(depth, time_limit, clk, moves,
                  RootStep(depth, moves, st,
                           SearchRootMove(push(st.board, moves[st.i]), depth)))

find_best_move(b, depth, time_limit, clk) ==
    IF legal_moves(b) = <<>>
    THEN [move |-> None, board |-> b, peak |-> Len(b.stack), scores |-> <<>>]
    ELSE RootLoop(depth, time_limit, clk, legal_moves(b),
                  [board |-> b, best_move |-> None,
                   best_score |-> IF b.turn = WHITE THEN NegInf ELSE Inf,
                   peak |-> Len(b.stack), scores |-> <<>>, i |-> 1])

(***************************************************************************)
(* find_best_move of chess_engine_v3.py: searches a copy of the board,     *)
(* collects the scores and selects with max/min.                           *)
(***************************************************************************)
\* max(move_scores, key=score) and min(...): the builtins keep the first of
\* equal keys.
RECURSIVE MaxByScore(_, _, _)
MaxByScore(move_scores, i, best) ==
    IF i > Len(move_scores) THEN best
    ELSE MaxByScore(move_scores, i + 1,
                    IF move_scores[i][2] > best[2] THEN move_scores[i] ELSE best)

RECURSIVE MinByScore(_, _, _)
MinByScore(move_scores, i, best) ==
    IF i > Len(move_scores) THEN best
    ELSE MinByScore(move_scores, i + 1,
                    IF move_scores[i][2] < best[2] THEN move_scores[i] ELSE best)

\* One iteration of the root loop on search_board after the clock check.
RootStepV3(moves, st, r) ==
    [board |-> pop(r.board),
     peak |-> max(st.peak, r.peak),
     scores |-> Append(st.scores, <<moves[st.i], r.score>>),
     i |-> st.i + 1]

RECURSIVE RootLoopV3(_, _, _, _, _)
RootLoopV3(depth, time_limit, clk, moves, st) ==
    IF st.i > Len(moves) \/ Elapsed(clk, st.i) > time_limit THEN st
    ELSE RootLoopV3(depth, time_limit, clk, moves,
                    RootStepV3(moves, st,
                               SearchRootMove(push(st.board, moves[st.i]), depth)))

\* The re-validation against the caller's board and the return.
ReturnV3(b, legal, l, best_move) ==
    [move |-> IF ~is_legal(b, best_move) THEN legal[1] ELSE best_move,
     board |-> b, peak |-> l.peak, scores |-> l.scores]

\* After the loop; l is the loop's final state.
SelectV3(b, legal, l) ==
    IF l.scores = <<>>
    THEN [move |-> legal[1], board |-> b, peak |-> l.peak, scores |-> l.scores]
    ELSE ReturnV3(b, legal, l,
                  IF b.turn = WHITE
                  THEN MaxByScore(l.scores, 2, l.scores[1])[1]
                  ELSE MinByScore(l.scores, 2, l.scores[1])[1])

find_best_move_v3(b, depth, time_limit, clk) ==
    IF legal_moves(b) = <<>>
    THEN [move |-> None, board |-> b, peak |-> Len(b.stack), scores |-> <<>>]
    ELSE SelectV3(b, legal_moves(b),
                  RootLoopV3(depth, time_limit, clk, legal_moves(b),
                             [board |-> b, peak |-> Len(b.stack),
                              scores |-> <<>>, i |-> 1]))

(***************************************************************************)
(* Tokens of a protocol line, and the parsing the rules component does.    *)
(***************************************************************************)
UciNames == <<"m1", "m2", "m3", "m4", "m5">>
PlacementNames == <<"p0", "p1", "p2", "p3", "p4", "p5", "p6", "p7">>
Digits == <<"0", "1", "2", "3", "4", "5", "6", "7", "8", "9">>

\* move.uci()
uci(move) == UciNames[move]

\* chess.Move.from_uci(token); None stands for the ValueError it raises.
from_uci(token) ==
    IF \E m \in 1 .. Len(UciNames) : UciNames[m] = token
    THEN CHOOSE m \in 1 .. Len(UciNames) : UciNames[m] = token
    ELSE None

IsNumber(token) == \E d \in 1 .. Len(Digits) : Digits[d] = token
int(token) == (CHOOSE d \in 1 .. Len(Digits) : Digits[d] = token) - 1
IsPlacement(token) == \E k \in 1 .. Len(PlacementNames) : PlacementNames[k] = token
PlacementOf(token) ==
    ((CHOOSE k \in 1 .. Len(PlacementNames) : PlacementNames[k] = token) - 1) % NumPositions

\* chess.Board(): the standard starting position.
StartBoard == [pos |-> 0, turn |-> WHITE, clock |-> 0, fullmove |-> 1, stack |-> <<>>]

\* chess.Board(fen) on the fields of fen.split(): the placement is required,
\* every later field has a default; [ok, board], ok = FALSE for the
\* ValueError a malformed FEN raises.
BoardFromFen(fields) ==
    LET n == Len(fields)
        valid == /\ n >= 1 /\ n <= 6
                 /\ IsPlacement(fields[1])
                 /\ n >= 2 => fields[2] \in {"w", "b"}
                 /\ n >= 3 => fields[3] = "-"
                 /\ n >= 4 => fields[4] = "-"
                 /\ n >= 5 => IsNumber(fields[5])
                 /\ n >= 6 => (IsNumber(fields[6]) /\ int(fields[6]) >= 1)
    IN  IF ~valid THEN [ok |-> FALSE, board |-> StartBoard]
        ELSE [ok |-> TRUE,
              board |-> [pos |-> PlacementOf(fields[1]),
                         turn |-> IF n >= 2 THEN fields[2] = "w" ELSE WHITE,
                         clock |-> IF n >= 5 THEN int(fields[5]) ELSE 0,
                         fullmove |-> IF n >= 6 THEN int(fields[6]) ELSE 1,
                         stack |-> <<>>]]

\* Python's seq[start:stop] for start >= 0 (indices from 0, a negative stop
\* counts from the end).
PySlice(seq, start, stop) ==
    LET hi == IF stop < 0 THEN max(Len(seq) + stop, 0) ELSE min(stop, Len(seq))
    IN  IF start >= hi THEN <<>> ELSE SubSeq(seq, start + 1, hi)

\* "moves" in parts, and parts.index("moves")
Contains(parts, token) == \E k \in 1 .. Len(parts) : parts[k] = token
IndexOf(parts, token) ==
    (CHOOSE k \in 1 .. Len(parts) :
        parts[k] = token /\ \A j \in 1 .. (k - 1) : parts[j] # token) - 1

\* for move in tokens: board.push_uci(move), from the i-th token on;
\* [raised, board], raised = TRUE when push_uci raises on an illegal move.
RECURSIVE PushAll(_, _, _)
PushAll(b, tokens, i) ==
    IF i > Len(tokens) THEN [raised |-> FALSE, board |-> b]
    ELSE LET move == from_uci(tokens[i]) IN
         IF move = None \/ ~is_legal(b, move) THEN [raised |-> TRUE, board |-> b]
         ELSE PushAll(push(b, move), tokens, i + 1)

(***************************************************************************)
(* The branch of uci_loop for a line that starts with "position";          *)
(* [raised, board], raised = TRUE when an exception leaves the loop.       *)
(***************************************************************************)
PositionStartpos(parts) ==
    LET fresh == StartBoard IN
    IF Len(parts) <= 2 THEN [raised |-> TRUE, board |-> fresh]   \* parts[2]: IndexError
    ELSE LET moves_start == IF parts[3] = "moves" THEN 3 ELSE 2 IN
         IF Len(parts) > moves_start
         THEN PushAll(fresh, PySlice(parts, moves_start, Len(parts)), 1)
         ELSE [raised |-> FALSE, board |-> fresh]

FenSlice(parts) ==
    PySlice(parts, 2, IF Contains(parts, "moves") THEN IndexOf(parts, "moves") ELSE -1)

PositionFen(old, parts) ==
    LET fen == FenSlice(parts)
        made == BoardFromFen(fen)
    IN  IF ~made.ok THEN [raised |-> TRUE, board |-> old]
        ELSE IF Contains(parts, "moves")
             THEN PushAll(made.board,
                          PySlice(parts, IndexOf(parts, "moves") + 1, Len(parts)), 1)
             ELSE [raised |-> FALSE, board |-> made.board]

HandlePosition(old, parts) ==
    IF Len(parts) < 2 THEN [raised |-> TRUE, board |-> old]      \* parts[1]: IndexError
    ELSE IF parts[2] = "startpos" THEN PositionStartpos(parts)
    ELSE IF parts[2] = "fen" THEN PositionFen(old, parts)
    ELSE [raised |-> FALSE, board |-> old]

(***************************************************************************)
(* The inputs.                                                             *)
(***************************************************************************)
SeqsUpTo(S, n) == UNION {[1 .. k -> S] : k \in 0 .. n}

MoveTokens == {UciNames[m] : m \in 1 .. MaxMoves}

\* "" (no suffix), "moves", "moves m1", "moves m1 m2", ...
MoveSuffixes == {<<>>} \cup {<<"moves">> \o ms : ms \in SeqsUpTo(MoveTokens, MaxReplay)}

Fens == {<<PlacementNames[k], t, "-", "-", "0", Digits[f + 1]>> :
            k \in 1 .. Len(PlacementNames), t \in {"w", "b"}, f \in 1 .. MaxFullmove}

PositionLines ==
    {<<"position", "startpos">> \o suf : suf \in MoveSuffixes}
    \cup {<<"position", "fen">> \o fen \o suf : fen \in Fens, suf \in MoveSuffixes}

Clocks == [delay : 0 .. MaxDelay, cost : 0 .. MaxCost]

\* The time limits the callers pass: 2.0 (uci_loop) and 3.0 (play_game).
TimeLimits == {2, 3}

\* The windows a direct caller of alpha_beta passes: the full one and some
\* narrower ones.
Windows == {<<NegInf, Inf>>, <<-50, 50>>, <<0, Inf>>, <<NegInf, 0>>}

(***************************************************************************)
(* State.                                                                  *)
(*   board   the caller's board (uci_loop's local, or a direct caller's)   *)
(*   out     the lines the last command printed                            *)
(*   status  "running", "quit" (the loop ended by quit) or "crashed" (an   *)
(*           uncaught exception ended it)                                  *)
(*   line    the tokens of the last command                                *)
(*   call    the call of the search core the last command made, with its   *)
(*           arguments and results (NoCall when it made none)              *)
(***************************************************************************)
VARIABLES board, out, status, line, call
vars == <<board, out, status, line, call>>

NoClock == [delay |-> 0, cost |-> 0]

NoCall == [fn |-> "none", before |-> StartBoard, depth |-> 0, alpha |-> 0, beta |-> 0,
           maximizing |-> FALSE, time_limit |-> 0, clk |-> NoClock,
           score |-> 0, move |-> None, peak |-> 0, skipped |-> 0, scores |-> <<>>]

(***************************************************************************)
(* uci_loop: one action per branch of the loop body.                       *)
(***************************************************************************)
Init ==
    /\ board = StartBoard
    /\ out = <<>>
    /\ status = "running"
    /\ line = <<>>
    /\ call = NoCall

CmdUci ==
    /\ status = "running"
    /\ line' = <<"uci">>
    /\ out' = <<"id name SimpleChess 1500", "id author xAI", "uciok">>
    /\ call' = NoCall
    /\ UNCHANGED <<board, status>>

CmdIsReady ==
    /\ status = "running"
    /\ line' = <<"isready">>
    /\ out' = <<"readyok">>
    /\ call' = NoCall
    /\ UNCHANGED <<board, status>>

CmdUciNewGame ==
    /\ status = "running"
    /\ line' = <<"ucinewgame">>
    /\ board' = StartBoard
    /\ out' = <<>>
    /\ call' = NoCall
    /\ UNCHANGED status

CmdPosition ==
    /\ status = "running"
    /\ \E parts \in PositionLines :
          \E r \in {HandlePosition(board, parts)} :
          /\ line' = parts
          /\ board' = r.board
          /\ status' = IF r.raised THEN "crashed" ELSE "running"
    /\ out' = <<>>
    /\ call' = NoCall

CmdGo ==
    /\ status = "running"
    /\ \E clk \in Clocks :
          \E r \in {find_best_move(board, 3, 2, clk)} :
          /\ board' = r.board
          /\ out' = IF r.move # None THEN <<"bestmove " \o uci(r.move)>>
                    ELSE <<"bestmove (none)">>
          /\ call' = [fn |-> "find_best_move", before |-> board, depth |-> 3,
                      alpha |-> NegInf, beta |-> Inf, maximizing |-> FALSE,
                      time_limit |-> 2, clk |-> clk, score |-> 0, move |-> r.move,
                      peak |-> r.peak, skipped |-> 0, scores |-> r.scores]
    /\ line' = <<"go">>
    /\ UNCHANGED status

CmdQuit ==
    /\ status = "running"
    /\ line' = <<"quit">>
    /\ status' = "quit"
    /\ out' = <<>>
    /\ call' = NoCall
    /\ UNCHANGED board

Next == CmdUci \/ CmdIsReady \/ CmdUciNewGame \/ CmdPosition \/ CmdGo \/ CmdQuit

Spec == Init /\ [][Next]_vars

(***************************************************************************)
(* The search core called directly, as play_game and any other caller of   *)
(* the module's functions does: the board and the arguments are drawn from *)
(* the bounded sets.                                                       *)
(***************************************************************************)
FreshBoards ==
    {[pos |-> p, turn |-> t, clock |-> 0, fullmove |-> 1, stack |-> <<>>] :
        p \in Positions, t \in {WHITE, BLACK}}

\* A caller's board: a fresh position, or one with a move already played.
CallerBoards ==
    FreshBoards \cup {push(b, m) : b \in FreshBoards, m \in 1 .. MaxMoves}

InitSearch ==
    /\ board \in {b \in CallerBoards :
                     Len(b.stack) = 0 \/ is_legal(pop(b), b.stack[1][1])}
    /\ out = <<>>
    /\ status = "running"
    /\ line = <<>>
    /\ call = NoCall

CallEvaluate ==
    /\ call.fn = "none"
    /\ call' = [NoCall EXCEPT !.fn = "evaluate_position", !.before = board,
                              !.score = evaluate_position(board)]
    /\ UNCHANGED <<board, out, status, line>>

CallAlphaBeta ==
    /\ call.fn = "none"
    /\ \E depth \in 0 .. MaxDepth, w \in Windows, maximizing \in BOOLEAN :
          \E r \in {alpha_beta(board, depth, w[1], w[2], maximizing)} :
          /\ board' = r.board
          /\ call' = [NoCall EXCEPT !.fn = "alpha_beta", !.before = board,
                                    !.depth = depth, !.alpha = w[1], !.beta = w[2],
                                    !.maximizing = maximizing, !.score = r.score,
                                    !.peak = r.peak, !.skipped = r.skipped]
    /\ UNCHANGED <<out, status, line>>

CallFindBestMove ==
    /\ call.fn = "none"
    /\ \E depth \in 0 .. MaxDepth, time_limit \in TimeLimits, clk \in Clocks :
          \E r \in {find_best_move(board, depth, time_limit, clk)} :
          /\ board' = r.board
          /\ call' = [NoCall EXCEPT !.fn = "find_best_move", !.before = board,
                                    !.depth = depth, !.time_limit = time_limit,
                                    !.clk = clk, !.move = r.move, !.peak = r.peak,
                                    !.scores = r.scores]
    /\ UNCHANGED <<out, status, line>>

CallFindBestMoveV3 ==
    /\ call.fn = "none"
    /\ \E depth \in 0 .. MaxDepth, time_limit \in TimeLimits, clk \in Clocks :
          \E r \in {find_best_move_v3(board, depth, time_limit, clk)} :
          /\ board' = r.board
          /\ call' = [NoCall EXCEPT !.fn = "find_best_move_v3", !.before = board,
                                    !.depth = depth, !.time_limit = time_limit,
                                    !.clk = clk, !.move = r.move, !.peak = r.peak,
                                    !.scores = r.scores]
    /\ UNCHANGED <<out, status, line>>

NextSearch == CallEvaluate \/ CallAlphaBeta \/ CallFindBestMove \/ CallFindBestMoveV3

SearchSpec == InitSearch /\ [][NextSearch]_vars

(***************************************************************************)
(* Reference definitions the properties compare the search with.           *)
(***************************************************************************)
SetMax(S) == CHOOSE v \in S : \A w \in S : w <= v
SetMin(S) == CHOOSE v \in S : \A w \in S : v <= w

Leaf(b, depth) == depth = 0 \/ is_game_over(b) \/ legal_moves(b) = <<>>

\* Unpruned minimax: the tree, the leaf evaluator, the enumeration and the
\* alternation of alpha_beta, without a window.
RECURSIVE Minimax(_, _, _)
Minimax(b, depth, maximizing_player) ==
    IF Leaf(b, depth) THEN evaluate_position(b)
    ELSE IF maximizing_player
         THEN SetMax({Minimax(push(b, legal_moves(b)[i]), depth - 1, FALSE) :
                         i \in 1 .. Len(legal_moves(b))})
         ELSE SetMin({Minimax(push(b, legal_moves(b)[i]), depth - 1, TRUE) :
                         i \in 1 .. Len(legal_moves(b))})

\* Sign-flipping negamax over the same tree, with evaluate_position at the
\* leaves.
RECURSIVE Negamax(_, _)
Negamax(b, depth) ==
    IF Leaf(b, depth) THEN evaluate_position(b)
    ELSE SetMax({-Negamax(push(b, legal_moves(b)[i]), depth - 1) :
                    i \in 1 .. Len(legal_moves(b))})

\* The i-th evaluated root move has the best score for the side to move.
IsBest(turn, scores, i) ==
    \A j \in 1 .. Len(scores) :
        IF turn = WHITE THEN scores[j][2] <= scores[i][2]
        ELSE scores[j][2] >= scores[i][2]

\* The first move, in enumeration order, with the best score.
FirstBest(turn, scores) ==
    scores[CHOOSE i \in 1 .. Len(scores) :
              /\ IsBest(turn, scores, i)
              /\ \A j \in 1 .. (i - 1) : ~IsBest(turn, scores, j)][1]

SearchCalls == {"alpha_beta", "find_best_move", "find_best_move_v3"}
RootCalls == {"find_best_move", "find_best_move_v3"}
FullWindow == call.alpha = NegInf /\ call.beta = Inf

\* The most moves the call had pushed at once.
Pushed == call.peak - Len(call.before.stack)

(***************************************************************************)
(* Properties of the search core (SearchSpec).                             *)
(***************************************************************************)
\* C1: board restoration.  When alpha_beta or find_best_move has returned,
\* by a normal return, a cutoff, the empty-move-list return or the time-limit
\* break, the caller's board is what it was before the call, move stack
\* included.
C1_BoardRestored ==
    call.fn \in SearchCalls => board = call.before

\* A root search that pushed at least two plies deep and was stopped by the
\* time limit after some but not all root moves, with the board restored.
C1_Witness ==
    /\ call.fn = "find_best_move"
    /\ Pushed >= 2
    /\ Len(call.scores) >= 1
    /\ Len(call.scores) < Len(legal_moves(call.before))
    /\ board = call.before

\* C2: checkmate sentinel.  Whenever the side to move is checkmated, White
\* or Black, evaluate_position returns exactly -99999.
C2_CheckmateSentinel ==
    (call.fn = "evaluate_position" /\ is_checkmate(call.before))
        => call.score = -99999

\* C3: pruning equivalence.  alpha_beta with the full window returns the
\* score of the unpruned minimax over the same tree.
C3_PruningEquivalence ==
    (call.fn = "alpha_beta" /\ FullWindow)
        => call.score = Minimax(call.before, call.depth, call.maximizing)

\* A full-window search of depth 3 in which breaks left moves unsearched.
C3_Witness ==
    /\ call.fn = "alpha_beta"
    /\ FullWindow
    /\ call.depth = 3
    /\ call.skipped > 0
    /\ call.score = Minimax(call.before, call.depth, call.maximizing)

\* The root loop was stopped by the elapsed-time check: the board has legal
\* moves and not all of them were evaluated.
StoppedEarly ==
    /\ call.fn \in RootCalls
    /\ legal_moves(call.before) # <<>>
    /\ Len(call.scores) < Len(legal_moves(call.before))

\* The evaluated root moves are a prefix of the enumeration.
EvaluatedPrefix ==
    \A i \in 1 .. Len(call.scores) : call.scores[i][1] = legal_moves(call.before)[i]

\* C4: time budget at the root.  When the board has a legal move and the
\* elapsed-time check stops the root loop early, a prefix of the root moves
\* was evaluated and a legal move is returned; with the empty prefix the
\* first enumerated legal move is returned, not None.
C4_TimeBudgetFallback ==
    StoppedEarly =>
        /\ EvaluatedPrefix
        /\ is_legal(call.before, call.move)
        /\ call.scores = <<>> => call.move = legal_moves(call.before)[1]

\* C8: root selection and tie-break.  When at least one root move was
\* evaluated, the move returned is the first evaluated one whose score is
\* the greatest (White to move) or the least (Black to move), and the other
\* variant of find_best_move returns the same move on the same inputs.
C8_FirstBestSelected ==
    (call.fn \in RootCalls /\ call.scores # <<>>) =>
        /\ call.move = FirstBest(call.before.turn, call.scores)
        /\ call.fn = "find_best_move" =>
              call.move = find_best_move_v3(call.before, call.depth,
                                            call.time_limit, call.clk).move
        /\ call.fn = "find_best_move_v3" =>
              call.move = find_best_move(call.before, call.depth,
                                         call.time_limit, call.clk).move

\* White to move, two evaluated root moves tie for the greatest score and
\* the earlier one is returned.
C8_Witness ==
    /\ call.fn = "find_best_move"
    /\ call.before.turn = WHITE
    /\ \E i, j \in 1 .. Len(call.scores) :
          /\ i < j
          /\ IsBest(WHITE, call.scores, i)
          /\ call.scores[j][2] = call.scores[i][2]
          /\ \A k \in 1 .. (i - 1) : ~IsBest(WHITE, call.scores, k)
          /\ call.move = call.scores[i][1]

\* C9: bounded recursion.  For a depth d >= 0 passed to find_best_move or
\* alpha_beta, the moves pushed on the board at once never exceed d, depth 0
\* included.
C9_BoundedRecursion ==
    call.fn \in SearchCalls => Pushed <= call.depth

\* C10: minimax/negamax equivalence.  With the full window and the
\* maximizing flag set as find_best_move sets it (true exactly when Black is
\* to move at the searched node), alpha_beta returns the score of the
\* sign-flipping negamax over the same tree.
C10_NegamaxEquivalence ==
    (/\ call.fn = "alpha_beta"
     /\ FullWindow
     /\ call.maximizing = (call.before.turn = BLACK))
        => call.score = Negamax(call.before, call.depth)

(***************************************************************************)
(* Properties of the protocol loop (Spec).                                 *)
(***************************************************************************)
IsPositionLine(kind) == Len(line) >= 2 /\ line[1] = "position" /\ line[2] = kind

\* The tokens after "moves" ("" when the line has no "moves"), and the
\* tokens between `fen` and "moves" or the end of the line.
GivenMoves ==
    IF Contains(line, "moves")
    THEN SubSeq(line, IndexOf(line, "moves") + 2, Len(line))
    ELSE <<>>
GivenFen ==
    SubSeq(line, 3, IF Contains(line, "moves") THEN IndexOf(line, "moves")
                    ELSE Len(line))

\* tokens applied to b in order.
RECURSIVE Replay(_, _)
Replay(b, tokens) ==
    IF tokens = <<>> THEN b
    ELSE Replay(push(b, from_uci(Head(tokens))), Tail(tokens))

\* Every token is a move that is legal where it is applied.
RECURSIVE Replayable(_, _)
Replayable(b, tokens) ==
    \/ tokens = <<>>
    \/ /\ from_uci(Head(tokens)) # None
       /\ is_legal(b, from_uci(Head(tokens)))
       /\ Replayable(push(b, from_uci(Head(tokens))), Tail(tokens))

\* C5: no legal moves.  On a board without legal moves find_best_move
\* returns None without pushing a move and `go` prints exactly
\* `bestmove (none)`; on a board with legal moves `go` prints exactly one
\* line `bestmove <move>`.
C5_GoOutput ==
    line = <<"go">> =>
        IF legal_moves(call.before) = <<>>
        THEN /\ call.move = None
             /\ Pushed = 0
             /\ status = "running"
             /\ out = <<"bestmove (none)">>
        ELSE \E i \in 1 .. Len(legal_moves(call.before)) :
                out = <<"bestmove " \o uci(legal_moves(call.before)[i])>>

\* C6: `position startpos` without a moves suffix resets the board to the
\* starting position, prints nothing and leaves the loop running; with
\* `moves m1 ... mk` it resets and applies m1..mk in order.
C6_PositionStartpos ==
    (IsPositionLine("startpos") /\ Replayable(StartBoard, GivenMoves)) =>
        /\ board = Replay(StartBoard, GivenMoves)
        /\ out = <<>>
        /\ status = "running"

\* C7: `position fen <fen> [moves ...]` sets the board from exactly the
\* tokens between `fen` and `moves`, or up to the end of the line when
\* `moves` is absent, and then replays the moves in order.
C7_PositionFen ==
    (/\ IsPositionLine("fen")
     /\ BoardFromFen(GivenFen).ok
     /\ Replayable(BoardFromFen(GivenFen).board, GivenMoves)) =>
        /\ board = Replay(BoardFromFen(GivenFen).board, GivenMoves)
        /\ out = <<>>
        /\ status = "running"
====
